---- MODULE Spec2Model ----
(***************************************************************************)
(* Model of the two batch patch scripts of the repository:                 *)
(*   scripts/fix-events.py                    (rule "event")               *)
(*   scripts/fix-handler-using-statements.py  (rule "handler")             *)
(* Both have the same shape: a module-level loop over files_to_fix calls   *)
(* fix_*_file(path), which reads the file, tests a marker, applies one     *)
(* re.sub and writes the file back when the text changed.                  *)
(*                                                                         *)
(* File contents are sequences of tokens.  One token is one character,    *)
(* except that the fixed words the scripts look for are one token each:    *)
(*   "sp" "nl" "cr"   a blank, a line feed, a carriage return              *)
(*   "rp" "colon" "semi" "lb" "rb"     ) : ; { }                           *)
(*   "IDomainEvent"   the word IDomainEvent                                *)
(*   "GuidId"         public Guid Id { get; } = Guid.NewGuid();            *)
(*   "OccurredOn"     public DateTime OccurredOn { get; } = DateTime.UtcNow; *)
(*   "UsingInterfaces" using VirtualQueue.Application.Common.Interfaces;   *)
(*   "UsingDTOs"      using VirtualQueue.Application.DTOs;                 *)
(*   "x"              any other character                                  *)
(***************************************************************************)
EXTENDS Integers, Sequences, FiniteSets, TLC

\* Number of paths in files_to_fix (the scripts list 22 and 6).
NumFiles == 2
\* Largest number of occurrences of the rule's pattern in an initial file.
MaxMatches == 2
\* Number of times the script is started in one behaviour.
MaxRuns == 2
\* Tokens in one block of the buffered writer (io.DEFAULT_BUFFER_SIZE bytes
\* in the interpreter).
FlushBlock == 8

Rules == {"event", "handler"}

files_to_fix == [i \in 1..NumFiles |-> i]
Paths == {files_to_fix[i] : i \in 1..NumFiles}

(***************************************************************************)
(* Text helpers                                                            *)
(***************************************************************************)
IsSpace(t) == t \in {"sp", "nl", "cr"}

\* sub in s  (Python's substring test)
Contains(s, sub) ==
    \E p \in 1..(Len(s) - Len(sub) + 1) :
        \A k \in 1..Len(sub) : s[p + k - 1] = sub[k]

\* open(path, 'r').read(): text mode with universal newlines:
\* "\r\n" and a lone "\r" are both read as "\n".
RECURSIVE DecodeFrom(_, _)
DecodeFrom(s, i) ==
    IF i > Len(s) THEN <<>>
    ELSE IF s[i] = "cr"
         THEN IF i < Len(s) /\ s[i + 1] = "nl"
              THEN <<"nl">> \o DecodeFrom(s, i + 2)
              ELSE <<"nl">> \o DecodeFrom(s, i + 1)
         ELSE <<s[i]>> \o DecodeFrom(s, i + 1)

Decode(s) == DecodeFrom(s, 1)

(***************************************************************************)
(* The two rules                                                           *)
(***************************************************************************)
\* Mutant: the marker literal differs from the line the replacement inserts.
M_MarkerStale(r) ==
    IF r = "event" THEN <<"GuidIdSet">> ELSE <<"UsingDto">>

Marker(r) ==
    IF r = "event" THEN <<"GuidId">> ELSE <<"UsingDTOs">>

\* Index of the first token at or after p that is not white space.
RECURSIVE SkipSpace(_, _)
SkipSpace(s, p) ==
    IF p <= Len(s) /\ IsSpace(s[p]) THEN SkipSpace(s, p + 1) ELSE p

\* p if s[p] = t, then the next index; 0 when the token is not there.
Expect(s, p, t) ==
    IF p >= 1 /\ p <= Len(s) /\ s[p] = t THEN p + 1 ELSE 0

\* r'(\s*\)\s*:\s*IDomainEvent\s*;)' tried at index p: the index after the
\* match, or 0 when the pattern does not match at p.
EventMatchEnd(s, p) ==
    LET a == Expect(s, SkipSpace(s, p), "rp")
        b == IF a = 0 THEN 0 ELSE Expect(s, SkipSpace(s, a), "colon")
        c == IF b = 0 THEN 0 ELSE Expect(s, SkipSpace(s, b), "IDomainEvent")
        d == IF c = 0 THEN 0 ELSE Expect(s, SkipSpace(s, c), "semi")
    IN d

\* r'(using VirtualQueue\.Application\.Common\.Interfaces;\n)' tried at p.
HandlerMatchEnd(s, p) ==
    LET a == Expect(s, p, "UsingInterfaces")
    IN IF a = 0 THEN 0 ELSE Expect(s, a, "nl")

MatchEnd(r, s, p) ==
    IF r = "event" THEN EventMatchEnd(s, p) ELSE HandlerMatchEnd(s, p)

\* The replacement template expanded for the match s[p..e-1].
EventReplacement ==
    <<"rp", "sp", "colon", "sp", "IDomainEvent", "nl", "lb", "nl",
      "sp", "sp", "sp", "sp", "GuidId", "nl",
      "sp", "sp", "sp", "sp", "OccurredOn", "nl", "rb">>

Replacement(r, s, p, e) ==
    IF r = "event" THEN EventReplacement
    ELSE SubSeq(s, p, e - 1) \o <<"UsingDTOs", "nl">>

\* re.sub(pattern, replacement, content) scanning from index p: every
\* non-overlapping match, leftmost first, is replaced; the scan goes on
\* after the end of the match in the original text.
RECURSIVE SubFrom(_, _, _)
SubFrom(r, s, p) ==
    IF p > Len(s) THEN <<>>
    ELSE LET e == MatchEnd(r, s, p)
         IN IF e > 0
            THEN Replacement(r, s, p, e) \o SubFrom(r, s, e)
            ELSE <<s[p]>> \o SubFrom(r, s, p + 1)

\* re.sub(pattern, replacement, content, count=n) scanning from index p.
RECURSIVE SubCountFrom(_, _, _, _)
SubCountFrom(r, s, p, n) ==
    IF p > Len(s) THEN <<>>
    ELSE IF n = 0 THEN SubSeq(s, p, Len(s))
    ELSE LET e == MatchEnd(r, s, p)
         IN IF e > 0
            THEN Replacement(r, s, p, e) \o SubCountFrom(r, s, e, n - 1)
            ELSE <<s[p]>> \o SubCountFrom(r, s, p + 1, n)

\* First occurrence only: re.sub(pattern, replacement, content, count=1).
SubFirst(r, s) == SubCountFrom(r, s, 1, 1)

\* Mutant: re.sub called with count=1.
M_SubFirstOnly(r, s) == SubFirst(r, s)

Sub(r, s) == SubFrom(r, s, 1)

\* Number of matches re.sub finds in s from index p on.
RECURSIVE CountFrom(_, _, _)
CountFrom(r, s, p) ==
    IF p > Len(s) THEN 0
    ELSE LET e == MatchEnd(r, s, p)
         IN IF e > 0 THEN 1 + CountFrom(r, s, e) ELSE CountFrom(r, s, p + 1)

Matches(r, s) == CountFrom(r, s, 1)

(***************************************************************************)
(* Initial file contents                                                   *)
(***************************************************************************)
\* Text that looks like the pattern and does not match it, on a line that
\* ends with CRLF.
NearMiss(r) ==
    IF r = "event"
    THEN <<"x", "rp", "sp", "colon", "sp", "IDomainEvent", "cr", "nl">>
    ELSE <<"x", "UsingInterfaces", "sp", "cr", "nl">>

\* The k-th occurrence of the pattern in a file: odd ones as the scripts'
\* authors wrote them, even ones with other white space and CRLF line ends.
Occurrence(r, k) ==
    IF r = "event"
    THEN IF k % 2 = 1
         THEN <<"x", "rp", "sp", "colon", "sp", "IDomainEvent", "semi", "nl">>
         ELSE <<"x", "nl", "rp", "colon", "IDomainEvent", "sp", "semi", "cr", "nl">>
    ELSE IF k % 2 = 1
         THEN <<"UsingInterfaces", "nl">>
         ELSE <<"x", "cr", "nl", "UsingInterfaces", "cr", "nl">>

RECURSIVE Occurrences(_, _)
Occurrences(r, n) ==
    IF n = 0 THEN <<>> ELSE Occurrences(r, n - 1) \o Occurrence(r, n)

\* A file with n occurrences of the pattern, with or without the marker.
Content(r, n, m) ==
    NearMiss(r) \o Occurrences(r, n) \o (IF m THEN Marker(r) \o <<"nl">> ELSE <<>>)

\* Files without the marker hold 0..MaxMatches occurrences.  With the
\* marker the scripts stop before they look for the pattern, so two such
\* files are enough: one without and one with occurrences.
Contents(r) ==
    {Content(r, n, FALSE) : n \in 0..MaxMatches}
    \cup {Content(r, n, TRUE) : n \in {0, MaxMatches}}

\* What a path can be on disk: nothing, a file that cannot be read
\* (permission denied, not decodable), a readable and writable file, or a
\* readable file that cannot be opened for writing.  The scripts open for
\* writing only a file that has a match and no marker, so the read-only
\* file is one of those.
Missing == [exists |-> FALSE, data |-> <<>>, readable |-> FALSE, writable |-> FALSE]

FileStates(r) ==
    {Missing}
    \cup {[exists |-> TRUE, data |-> Content(r, 1, FALSE),
           readable |-> FALSE, writable |-> FALSE]}
    \cup {[exists |-> TRUE, data |-> c, readable |-> TRUE, writable |-> TRUE] :
            c \in Contents(r)}
    \cup {[exists |-> TRUE, data |-> Content(r, 1, FALSE),
           readable |-> TRUE, writable |-> FALSE]}

Outcomes == {"NotFound", "AlreadyConformant", "Patched", "NoMatchFound"}

(***************************************************************************)
(* State                                                                   *)
(***************************************************************************)
VARIABLES
    rule,           \* which script runs: "event" or "handler"
    fs,             \* the disk: path -> file state
    run,            \* number of the current run of the script
    pc,             \* position of the script
    idx,            \* index into files_to_fix of the module loop
    content,        \* local of fix_*_file
    new_content,    \* local of fix_*_file
    success_count,  \* module variable
    output,         \* lines printed by the current run
    outcome,        \* path -> what the current run reported for it ("none" before)
    writes,         \* path -> number of f.write calls of the current run
    fs0,            \* the disk before the first run
    prevFs,         \* the disk when the current run started
    prevOutcome,    \* outcomes of the previous run, if it ended by itself
    prevEnd         \* how the previous run ended: "none", "done", "aborted", "killed"

vars == <<rule, fs, run, pc, idx, content, new_content, success_count, output,
          outcome, writes, fs0, prevFs, prevOutcome, prevEnd>>

NoOutcome == [p \in Paths |-> "none"]
NoWrites == [p \in Paths |-> 0]

Path == files_to_fix[idx]

Init ==
    /\ rule \in Rules
    /\ fs \in [Paths -> FileStates(rule)]
    /\ fs0 = fs
    /\ run = 1
    /\ pc = "loop"
    /\ idx = 1
    /\ content = <<>>
    /\ new_content = <<>>
    /\ success_count = 0
    /\ output = <<>>
    /\ outcome = NoOutcome
    /\ writes = NoWrites
    /\ prevFs = fs
    /\ prevOutcome = NoOutcome
    /\ prevEnd = "none"

Line(kind, p) == [kind |-> kind, path |-> p]

\* Mutant: the loop counts every call, whatever it returned.
M_ReturnAlwaysCounts(b) ==
    /\ success_count' = success_count + 1
    /\ idx' = idx + 1
    /\ pc' = "loop"
    /\ content' = <<>>
    /\ new_content' = <<>>

\* return b from fix_*_file: the locals of the call are gone, and the module
\* loop counts a True.
Return(b) ==
    /\ success_count' = IF b THEN success_count + 1 ELSE success_count
    /\ idx' = idx + 1
    /\ pc' = "loop"
    /\ content' = <<>>
    /\ new_content' = <<>>

Frame == UNCHANGED <<rule, run, fs0, prevFs, prevOutcome, prevEnd>>

(***************************************************************************)
(* Steps of the script                                                     *)
(***************************************************************************)
\* for file_path in files_to_fix: fix_*_file(file_path) is entered and
\* prints "Fixing <path>...".
Enter ==
    /\ pc = "loop"
    /\ idx <= NumFiles
    /\ output' = Append(output, Line("fixing", Path))
    /\ pc' = "exists"
    /\ UNCHANGED <<fs, idx, content, new_content, success_count, outcome, writes>>
    /\ Frame

\* Mutant: no existence test, open() raises FileNotFoundError.
M_NotFoundRaises ==
    /\ pc = "exists"
    /\ ~fs[Path].exists
    /\ pc' = "aborted"
    /\ UNCHANGED <<fs, idx, content, new_content, success_count, output, outcome, writes>>
    /\ Frame

\* if not os.path.exists(file_path): print "File not found"; return False
NotFound ==
    /\ pc = "exists"
    /\ ~fs[Path].exists
    /\ output' = Append(output, Line("not-found", Path))
    /\ outcome' = [outcome EXCEPT ![Path] = "NotFound"]
    /\ Return(FALSE)
    /\ UNCHANGED <<fs, writes>>
    /\ Frame

Exists ==
    /\ pc = "exists"
    /\ fs[Path].exists
    /\ pc' = "read"
    /\ UNCHANGED <<fs, idx, content, new_content, success_count, output, outcome, writes>>
    /\ Frame

\* with open(file_path, 'r') as f: content = f.read()
Read ==
    /\ pc = "read"
    /\ fs[Path].readable
    /\ content' = Decode(fs[Path].data)
    /\ pc' = "marker"
    /\ UNCHANGED <<fs, idx, new_content, success_count, output, outcome, writes>>
    /\ Frame

\* open or read raises (PermissionError, OSError, UnicodeDecodeError):
\* nothing catches it, the interpreter prints a traceback and exits.
ReadRaises ==
    /\ pc = "read"
    /\ ~fs[Path].readable
    /\ pc' = "aborted"
    /\ UNCHANGED <<fs, idx, content, new_content, success_count, output, outcome, writes>>
    /\ Frame

\* Mutant: the pattern is tried first and the marker only when it fails.
M_MarkerTestAfterMatch(r, s) == Contains(s, Marker(r)) /\ Matches(r, s) = 0

\* if <marker> in content: print "Already fixed"; return True
MarkerTest(r, s) == Contains(s, Marker(r))

AlreadyFixed ==
    /\ pc = "marker"
    /\ MarkerTest(rule, content)
    /\ output' = Append(output, Line("already-fixed", Path))
    /\ outcome' = [outcome EXCEPT ![Path] = "AlreadyConformant"]
    /\ Return(TRUE)
    /\ UNCHANGED <<fs, writes>>
    /\ Frame

\* new_content = re.sub(pattern, replacement, content)
Substitute ==
    /\ pc = "marker"
    /\ ~MarkerTest(rule, content)
    /\ new_content' = Sub(rule, content)
    /\ pc' = "compare"
    /\ UNCHANGED <<fs, idx, content, success_count, output, outcome, writes>>
    /\ Frame

\* if new_content != content: ... else: print "No changes needed"; return False
NoChanges ==
    /\ pc = "compare"
    /\ new_content = content
    /\ output' = Append(output, Line("no-changes-needed", Path))
    /\ outcome' = [outcome EXCEPT ![Path] = "NoMatchFound"]
    /\ Return(FALSE)
    /\ UNCHANGED <<fs, writes>>
    /\ Frame

\* Mutant: the file is written back without comparing the two texts.
M_ChangedAlways ==
    /\ pc = "compare"
    /\ pc' = "open"
    /\ UNCHANGED <<fs, idx, content, new_content, success_count, output, outcome, writes>>
    /\ Frame

Changed ==
    /\ pc = "compare"
    /\ new_content # content
    /\ pc' = "open"
    /\ UNCHANGED <<fs, idx, content, new_content, success_count, output, outcome, writes>>
    /\ Frame

\* with open(file_path, 'w') as f: the file is truncated to length 0.
OpenWrite ==
    /\ pc = "open"
    /\ fs[Path].writable
    /\ fs' = [fs EXCEPT ![Path].data = <<>>]
    /\ pc' = "write"
    /\ UNCHANGED <<idx, content, new_content, success_count, output, outcome, writes>>
    /\ Frame

\* open(file_path, 'w') raises PermissionError: the file is left as it was,
\* nothing catches the exception and the interpreter exits.
OpenWriteRaises ==
    /\ pc = "open"
    /\ ~fs[Path].writable
    /\ pc' = "aborted"
    /\ UNCHANGED <<fs, idx, content, new_content, success_count, output, outcome, writes>>
    /\ Frame

\* f.write(new_content) and the close at the end of the with block.  The
\* text is written as it is: on a POSIX system "\n" stays "\n".
Write ==
    /\ pc = "write"
    /\ fs' = [fs EXCEPT ![Path].data = new_content]
    /\ writes' = [writes EXCEPT ![Path] = @ + 1]
    /\ pc' = "written"
    /\ UNCHANGED <<idx, content, new_content, success_count, output, outcome>>
    /\ Frame

\* Mutant: the return after "Successfully fixed" is missing and the else
\* branch's line is printed too.
M_FixedFallsThrough ==
    /\ pc = "written"
    /\ output' = output \o <<Line("fixed", Path), Line("no-changes-needed", Path)>>
    /\ outcome' = [outcome EXCEPT ![Path] = "Patched"]
    /\ Return(TRUE)
    /\ UNCHANGED <<fs, writes>>
    /\ Frame

\* print "Successfully fixed"; return True
Fixed ==
    /\ pc = "written"
    /\ output' = Append(output, Line("fixed", Path))
    /\ outcome' = [outcome EXCEPT ![Path] = "Patched"]
    /\ Return(TRUE)
    /\ UNCHANGED <<fs, writes>>
    /\ Frame

\* print(f"\nFixed {success_count} out of {len(files_to_fix)} files")
Summary ==
    /\ pc = "loop"
    /\ idx > NumFiles
    /\ output' = Append(output, [kind |-> "summary", k |-> success_count,
                                 n |-> Len(files_to_fix)])
    /\ pc' = "done"
    /\ UNCHANGED <<fs, idx, content, new_content, success_count, outcome, writes>>
    /\ Frame

(***************************************************************************)
(* The environment: the process is terminated, the script is started again *)
(***************************************************************************)
Running == pc \notin {"done", "aborted", "killed"}

\* What is on disk when the process dies between open(.., 'w') and the end
\* of the with block: the buffered writer hands the text to the file in
\* whole blocks, so the file holds some number of whole blocks of the new
\* content, none included, and never all of it.
Flushed(s) ==
    {SubSeq(s, 1, n * FlushBlock) : n \in 0..((Len(s) - 1) \div FlushBlock)}

\* The process is terminated from outside: its locals are gone, what it
\* printed and what it left on disk stay.
Kill ==
    /\ Running
    /\ pc' = "killed"
    /\ IF pc = "write"
       THEN \E d \in Flushed(new_content) :
               fs' = [fs EXCEPT ![Path].data = d]
       ELSE fs' = fs
    /\ content' = <<>>
    /\ new_content' = <<>>
    /\ UNCHANGED <<idx, success_count, output, outcome, writes>>
    /\ Frame

\* The script is started again: a fresh process, the disk as it was left.
Restart ==
    /\ ~Running
    /\ run < MaxRuns
    /\ run' = run + 1
    /\ prevEnd' = pc
    /\ prevFs' = fs
    /\ prevOutcome' = IF pc = "killed" THEN NoOutcome ELSE outcome
    /\ pc' = "loop"
    /\ idx' = 1
    /\ content' = <<>>
    /\ new_content' = <<>>
    /\ success_count' = 0
    /\ output' = <<>>
    /\ outcome' = NoOutcome
    /\ writes' = NoWrites
    /\ UNCHANGED <<rule, fs, fs0>>

Next ==
    \/ Enter \/ NotFound \/ Exists \/ Read \/ ReadRaises
    \/ AlreadyFixed \/ Substitute \/ NoChanges \/ Changed
    \/ OpenWrite \/ OpenWriteRaises \/ Write \/ Fixed \/ Summary
    \/ Kill \/ Restart

Spec == Init /\ [][Next]_vars

(***************************************************************************)
(* fix_*_file and the module loop as functions of the disk: what one call  *)
(* on one file returns and leaves on disk, and what one run over a list    *)
(* of paths leaves behind.                                                 *)
(***************************************************************************)
\* One call of fix_*_file on file state f.  raised: the call ended with an
\* uncaught exception; ok: it returned True.
FixOne(r, f) ==
    IF ~f.exists
    THEN [outcome |-> "NotFound", file |-> f, ok |-> FALSE, raised |-> FALSE]
    ELSE IF ~f.readable
    THEN [outcome |-> "none", file |-> f, ok |-> FALSE, raised |-> TRUE]
    ELSE LET c == Decode(f.data)
             n == Sub(r, c)
         IN IF Contains(c, Marker(r))
            THEN [outcome |-> "AlreadyConformant", file |-> f, ok |-> TRUE, raised |-> FALSE]
            ELSE IF n = c
            THEN [outcome |-> "NoMatchFound", file |-> f, ok |-> FALSE, raised |-> FALSE]
            ELSE IF ~f.writable
            THEN [outcome |-> "none", file |-> f, ok |-> FALSE, raised |-> TRUE]
            ELSE [outcome |-> "Patched", file |-> [f EXCEPT !.data = n],
                  ok |-> TRUE, raised |-> FALSE]

\* One uninterrupted run of the module loop over the paths of list on disk d.
RECURSIVE RunList(_, _, _)
RunList(r, d, list) ==
    IF list = <<>>
    THEN [disk |-> d, outcome |-> NoOutcome, count |-> 0, end |-> "done"]
    ELSE LET p == Head(list)
             one == FixOne(r, d[p])
             rest == RunList(r, [d EXCEPT ![p] = one.file], Tail(list))
         IN IF one.raised
            THEN [disk |-> d, outcome |-> NoOutcome, count |-> 0, end |-> "aborted"]
            ELSE [disk |-> rest.disk,
                  outcome |-> [rest.outcome EXCEPT ![p] = one.outcome],
                  count |-> rest.count + (IF one.ok THEN 1 ELSE 0),
                  end |-> rest.end]

(***************************************************************************)
(* Vocabulary of the properties                                            *)
(***************************************************************************)
\* The run ended by itself: summary printed, or uncaught exception.
Ended == pc \in {"done", "aborted"}

\* new_content holds the result of re.sub for the current file.
AfterSub == pc \in {"compare", "open", "write", "written"}

\* The text the current run read, or will read, from path p.
TextAtStart(p) == Decode(prevFs[p].data)

Readable(p) == prevFs[p].exists /\ prevFs[p].readable

Position(p) == CHOOSE i \in 1..NumFiles : files_to_fix[i] = p

CountToken(s, t) == Cardinality({i \in 1..Len(s) : s[i] = t})

SummaryLine == output[Len(output)]

OutcomeKind(o) ==
    CASE o = "NotFound" -> "not-found"
      [] o = "AlreadyConformant" -> "already-fixed"
      [] o = "Patched" -> "fixed"
      [] o = "NoMatchFound" -> "no-changes-needed"
      [] OTHER -> "none"

(***************************************************************************)
(* C1  Idempotency                                                         *)
(***************************************************************************)
\* C1: a run that follows a run which ended by itself leaves every file as
\* that run left it, and reports "Already fixed" for every file that run
\* reported "Successfully fixed" for; under both rules.
C1_Idempotent ==
    (run >= 2 /\ prevEnd \in {"done", "aborted"}) =>
        /\ fs = prevFs
        /\ \A p \in Paths :
              prevOutcome[p] = "Patched" =>
                  /\ outcome[p] \in {"none", "AlreadyConformant"}
                  /\ Ended => outcome[p] = "AlreadyConformant"

C1_Witness ==
    /\ run = 2 /\ pc = "done" /\ prevEnd = "done"
    /\ \E p \in Paths :
          /\ prevOutcome[p] = "Patched"
          /\ outcome[p] = "AlreadyConformant"
          /\ fs[p].data # fs0[p].data

C3_NoMatchNoWrite ==
    \A p \in Paths :
        LET text == TextAtStart(p)
        IN \/ /\ fs[p] = prevFs[p]
              /\ writes[p] = 0
              /\ outcome[p] \in {"none", "NoMatchFound"}
              /\ (pc = "done" \/ Position(p) < idx) => outcome[p] = "NoMatchFound"
           \/ ~(/\ Readable(p)
                 /\ ~Contains(text, Marker(rule))
                 /\ Matches(rule, text) = 0)

C3_Witness ==
    \E p \in Paths :
        /\ Readable(p)
        /\ ~Contains(TextAtStart(p), Marker(rule))
        /\ Matches(rule, TextAtStart(p)) = 0
        /\ CountToken(prevFs[p].data, "cr") > 0
        /\ outcome[p] = "NoMatchFound"

(***************************************************************************)
(* C4  Missing files                                                       *)
(***************************************************************************)
\* C4: a path that does not exist is reported NotFound once reached, is
\* not created, raises nothing, and the run ends as a run over the list
\* without the missing paths ends: same disk, same outcomes of the other
\* paths, same count, same way of ending.
C4_MissingFileSafe ==
    /\ \A p \in Paths :
          ~prevFs[p].exists =>
              /\ ~fs[p].exists
              /\ outcome[p] \in {"none", "NotFound"}
              /\ (pc = "done" \/ Position(p) < idx) => outcome[p] = "NotFound"
              /\ (pc = "aborted" => Path # p)
    /\ Ended =>
          LET ref == RunList(rule, prevFs,
                             SelectSeq(files_to_fix, LAMBDA p : prevFs[p].exists))
          IN /\ fs = ref.disk
             /\ pc = ref.end
             /\ success_count = ref.count
             /\ \A p \in Paths : prevFs[p].exists => outcome[p] = ref.outcome[p]

C4_Witness ==
    /\ pc = "done"
    /\ ~fs[files_to_fix[1]].exists
    /\ outcome[files_to_fix[1]] = "NotFound"
    /\ outcome[files_to_fix[2]] = "Patched"

(***************************************************************************)
(* C5  I/O failures                                                        *)
(***************************************************************************)
\* C5 as stated: a failing read or write of one file does not end the run:
\* the run never dies from an exception, every path gets processed and the
\* summary is printed.
C5_IoFailureNotFatal ==
    Ended =>
        /\ pc = "done"
        /\ Len(output) = 2 * NumFiles + 1
        /\ SummaryLine.kind = "summary"

(***************************************************************************)
(* C6  Which occurrences are replaced                                      *)
(***************************************************************************)
\* C6 as stated: only the first occurrence of the pattern is replaced and
\* every later one is left as it was.
C6_FirstOccurrenceOnly ==
    AfterSub => new_content = SubFirst(rule, content)

\* An occurrence of the pattern in s that the rule has not rewritten.
Unreplaced(r, s) ==
    IF r = "event" THEN Matches(r, s)
    ELSE Cardinality({i \in 1..Len(s) :
            /\ HandlerMatchEnd(s, i) > 0
            /\ ~(/\ i + 3 <= Len(s)
                 /\ s[i + 2] = "UsingDTOs"
                 /\ s[i + 3] = "nl")})

\* C6 amended: every non-overlapping occurrence of the pattern in the text
\* read (which has no marker) is replaced, each exactly once: the new text
\* holds one inserted marker line per occurrence, no occurrence is left
\* unreplaced, and the replacement text is not matched again.
C6_EveryOccurrence ==
    AfterSub =>
        /\ CountToken(new_content, Marker(rule)[1]) = Matches(rule, content)
        /\ Unreplaced(rule, new_content) = 0
        /\ rule = "handler" =>
              Len(new_content) = Len(content) + 2 * Matches(rule, content)

C6_Witness ==
    /\ pc = "written"
    /\ Matches(rule, content) >= 2
    /\ fs[Path].data = new_content
    /\ new_content # SubFirst(rule, content)

(***************************************************************************)
(* C7  Independence of the files                                           *)
(***************************************************************************)
\* C7 as stated: when a run over the whole list has ended, the outcome and
\* the content of every file are those of a run over that file alone.
C7_SameAsAlone ==
    Ended =>
        \A p \in Paths :
            LET alone == RunList(rule, prevFs, <<p>>)
            IN /\ outcome[p] = alone.outcome[p]
               /\ fs[p] = alone.disk[p]

(***************************************************************************)
(* C8  Interruption                                                        *)
(***************************************************************************)
\* C8 as stated: after a run that was terminated and a complete run after
\* it, every file holds what one uninterrupted run from the original disk
\* produces.
C8_RetryAfterKill ==
    (run = 2 /\ prevEnd = "killed" /\ pc = "done") =>
        fs = RunList(rule, fs0, files_to_fix).disk

(***************************************************************************)
(* C9  The marker is tested first                                          *)
(***************************************************************************)
\* C9: for a readable file whose text holds the marker, no substitution is
\* computed and nothing is written, the file stays as it was and once
\* processed its outcome is AlreadyConformant, also when the text still
\* holds matches of the pattern.
C9_MarkerFirst ==
    \A p \in Paths :
        \/ /\ fs[p] = prevFs[p]
           /\ writes[p] = 0
           /\ outcome[p] \in {"none", "AlreadyConformant"}
           /\ (pc = "done" \/ Position(p) < idx) => outcome[p] = "AlreadyConformant"
           /\ (idx <= NumFiles /\ Path = p) => ~AfterSub
        \/ ~(Readable(p) /\ Contains(TextAtStart(p), Marker(rule)))

C9_Witness ==
    \E p \in Paths :
        /\ Readable(p)
        /\ Contains(TextAtStart(p), Marker(rule))
        /\ Matches(rule, TextAtStart(p)) >= 1
        /\ outcome[p] = "AlreadyConformant"

(***************************************************************************)
(* C10  Order of the printed lines                                         *)
(***************************************************************************)
\* C10: the output of a run is, path by path in list order, one "Fixing"
\* line and then one outcome line for the same path; a completed run has
\* both lines for every path and then the one summary line; the summary is
\* printed by completed runs only; no file is written more than once.
C10_ReportingOrder ==
    /\ \A i \in 1..Len(output) :
          IF i > 2 * NumFiles
          THEN /\ i = 2 * NumFiles + 1
               /\ output[i].kind = "summary"
               /\ pc = "done"
          ELSE LET p == files_to_fix[(i + 1) \div 2]
               IN /\ output[i].path = p
                  /\ IF i % 2 = 1
                     THEN output[i].kind = "fixing"
                     ELSE /\ outcome[p] \in Outcomes
                          /\ output[i].kind = OutcomeKind(outcome[p])
    /\ pc = "done" => Len(output) = 2 * NumFiles + 1
    /\ \A p \in Paths :
          /\ writes[p] <= 1
          /\ outcome[p] # "none" => Len(output) >= 2 * Position(p)

C10_Witness ==
    /\ pc = "done"
    /\ \E p \in Paths : writes[p] = 1
    /\ \E p \in Paths : outcome[p] = "NoMatchFound"

====
